---------------------------- MODULE Spec2Model ----------------------------
(***************************************************************************)
(* Model of transforms.py: for every source file a random sox transform is *)
(* picked, one of its continuous parameters is swept over N_TRANSFORMS     *)
(* sorted values, every value is rendered to an .ogg file, and the         *)
(* distances of renders 1..N-1 to render 0 are rank-correlated with their  *)
(* index.                                                                  *)
(*                                                                         *)
(* Numbers.  Floats are fixed-point integers counted in 1/Scale.  The      *)
(* process-wide generator (random.seed(0), random.choice, random.uniform)  *)
(* is a state variable rng; every call of random.choice or random.uniform  *)
(* steps it once.  The stream the library produces after seed(0) is not    *)
(* reproduced: a linear congruential map stands for it and the run starts  *)
(* from any seed of Seeds.  Strings produced by str.format are sequences   *)
(* of ASCII codes.  The effects engine, the decoder, the distance and the  *)
(* rank correlation are outside the repository: the engine may fail at any *)
(* render, the length of what it writes is fixed by the value rendered and *)
(* by engine, the distance and the correlation are left uninterpreted.     *)
(***************************************************************************)
EXTENDS Integers, Sequences, FiniteSets, TLC

N_TRANSFORMS == 32

\* ------------------------------------------------------------ bounds ----
Scale    == 3000      \* fixed-point units per 1.0
RngMod   == 4096      \* number of generator states
RngMult  == 3141      \* generator multiplier
RngInc   == 1013      \* generator increment
NumSeeds == 128       \* seeds 0..NumSeeds-1
NumFiles == 2         \* files returned by glob
MaxLen   == 3         \* longest decoded buffer, in frames

Seeds == 0 .. (NumSeeds - 1)
Files == 1 .. NumFiles

\* --------------------------------------------------------- arithmetic ---
\* floor(a * b / d) for a, b >= 0 without leaving 32 bits
MulDiv(a, b, d) == (a \div d) * b + ((a % d) * b) \div d

\* the literal n/d of the source, in units
R(n, d) == (n * Scale) \div d

Pow2(k) == 2 ^ k

Abs(x) == IF x < 0 THEN -x ELSE x

\* 2^(k/12) for k = 0..12, in 1/10000
SemitoneDen == 10000
SemitoneRatio ==
  <<10000, 10595, 11225, 11892, 12599, 13348, 14142,
    14983, 15874, 16818, 17818, 18877, 20000>>

\* note_to_freq: (a / 32) * 2 ** ((note - 9) / 12), a = 440.  The power of
\* two is taken from the semitone table and interpolated linearly between
\* two semitones.
note_to_freq(note) ==
  LET a     == 440
      s     == note - 9 * Scale
      semis == s \div Scale
      frac  == s % Scale
      base  == R(a, 32) * Pow2(semis \div 12)
      k     == semis % 12
      lo    == MulDiv(base, SemitoneRatio[k + 1], SemitoneDen)
      hi    == MulDiv(base, SemitoneRatio[k + 2], SemitoneDen)
  IN  lo + MulDiv(hi - lo, frac, Scale)

\* ------------------------------------------------------------ catalog ---
\* "n_semitones" as the sequence of its characters
N_SEMITONES == <<"n", "_", "s", "e", "m", "i", "t", "o", "n", "e", "s">>

\* (transform name, [(continuous parameter, min, max), ...],
\*  [(categorical parameter, [values])])
transforms == <<
  <<"allpass", << <<"midi", R(21,1), R(108,1)>>, <<"width_q", R(1,10), R(5,1)>> >>, << >> >>,
  <<"bandpass", << <<"midi", R(21,1), R(108,1)>>, <<"width_q", R(1,10), R(5,1)>> >>,
     << <<"constant_skirt", <<TRUE, FALSE>> >> >> >>,
  <<"bandreject", << <<"midi", R(21,1), R(108,1)>>, <<"width_q", R(1,10), R(5,1)>> >>, << >> >>,
  <<"bass", << <<"gain_db", R(-20,1), R(20,1)>>, <<"midi", R(21,1), R(108,1)>>,
               <<"slope", R(3,10), R(1,1)>> >>, << >> >>,
  <<"chorus", << <<"gain_in", R(0,1), R(1,1)>>, <<"gain_out", R(0,1), R(1,1)>> >>,
     << <<"n_voices", <<2, 3, 4>> >> >> >>,
  <<"compand", << <<"attack_time", R(1,100), R(1,1)>>, <<"decay_time", R(1,100), R(2,1)>>,
                  <<"soft_knee_db", R(0,1), R(12,1)>> >>, << >> >>,
  <<"contrast", << <<"amount", R(0,1), R(100,1)>> >>, << >> >>,
  <<"echo", << <<"gain_in", R(0,1), R(1,1)>>, <<"gain_out", R(0,1), R(1,1)>> >>, << >> >>,
  <<"equalizer", << <<"midi", R(21,1), R(108,1)>>, <<"gain_db", R(-20,1), R(20,1)>>,
                    <<"width_q", R(1,10), R(5,1)>> >>, << >> >>,
  <<"fade", << <<"fade_in_len", R(0,1), R(2,1)>>, <<"fade_out_len", R(0,1), R(2,1)>> >>,
     << <<"fade_shape", <<"q", "h", "t", "l", "p">> >> >> >>,
  <<"flanger", << <<"delay", R(0,1), R(30,1)>>, <<"depth", R(0,1), R(10,1)>>,
                  <<"regen", R(-95,1), R(95,1)>>, <<"width", R(0,1), R(100,1)>>,
                  <<"speed", R(1,10), R(10,1)>>, <<"phase", R(0,1), R(100,1)>> >>,
     << <<"shape", <<"triangle", "sine">> >>, <<"interp", <<"linear", "quadratic">> >> >> >>,
  <<"gain", << <<"gain_db", R(-20,1), R(20,1)>> >>,
     << <<"normalize", <<TRUE, FALSE>> >>, <<"limiter", <<TRUE, FALSE>> >>,
        <<"balance", <<"None", "e", "B", "b">> >> >> >>,
  <<"highpass", << <<"midi", R(21,1), R(108,1)>>, <<"width_q", R(1,10), R(5,1)>> >>,
     << <<"n_poles", <<1, 2>> >> >> >>,
  <<"lowpass", << <<"midi", R(21,1), R(108,1)>>, <<"width_q", R(1,10), R(5,1)>> >>,
     << <<"n_poles", <<1, 2>> >> >> >>,
  <<"overdrive", << <<"gain_db", R(-40,1), R(40,1)>>, <<"colour", R(-40,1), R(40,1)>> >>, << >> >>,
  <<"phaser", << <<"gain_in", R(0,1), R(1,1)>>, <<"gain_out", R(0,1), R(1,1)>>,
                 <<"delay", R(0,1), R(5,1)>>, <<"decay", R(1,10), R(5,10)>>,
                 <<"speed", R(1,10), R(2,1)>> >>,
     << <<"modulation_shape", <<"sinusoidal", "triangular">> >> >> >>,
  <<"pitch", << N_SEMITONES, <<R(-12,1), R(12,1)>> >>,
     << <<"quick", <<TRUE, FALSE>> >> >> >>,
  <<"reverb", << <<"reverberance", R(0,1), R(100,1)>>, <<"high_freq_damping", R(0,1), R(100,1)>>,
                 <<"room_scale", R(0,1), R(100,1)>>, <<"stereo_depth", R(0,1), R(100,1)>>,
                 <<"pre_delay", R(0,1), R(1000,1)>>, <<"wet_gain", R(-20,1), R(20,1)>> >>,
     << <<"wet_only", <<TRUE, FALSE>> >> >> >>,
  <<"speed", << <<"factor", R(1,2), R(3,2)>> >>, << >> >>,
  <<"stretch", << <<"factor", R(1,2), R(3,2)>> >>, << <<"window", <<10, 20, 50>> >> >> >>,
  <<"tempo", << <<"factor", R(1,2), R(3,2)>> >>,
     << <<"audio_type", <<"m", "s", "l">> >>, <<"quick", <<TRUE, FALSE>> >> >> >>,
  <<"treble", << <<"gain_db", R(-20,1), R(20,1)>>, <<"midi", R(21,1), R(108,1)>>,
                 <<"slope", R(3,10), R(1,1)>> >>, << >> >>,
  <<"tremolo", << <<"speed", R(1,10), R(10,1)>>, <<"depth", R(0,1), R(100,1)>> >>, << >> >>
>>


\* ---------------------------------------------------------- generator ---
\* one step of the generator seeded at line 17; the new state is also the
\* value random() returns, read as r / RngMod in [0, 1)
RngStep(s) == (RngMult * s + RngInc) % RngMod

RECURSIVE RngDrawsShort(_, _)
RngDrawsShort(s, n) ==
  IF n <= 1 THEN << >>
  ELSE LET r == RngStep(s) IN <<r>> \o RngDrawsShort(r, n - 1)

\* the n values returned by n successive calls of random() from state s
RECURSIVE RngDraws(_, _)
RngDraws(s, n) ==
  IF n = 0 THEN << >>
  ELSE LET r == RngStep(s) IN <<r>> \o RngDraws(r, n - 1)

\* random.choice(seq) for the draw r
Choice(seq, r) == seq[1 + (Len(seq) * r) \div RngMod]

\* random.uniform(low, hi) = low + (hi - low) * random()
Uniform(low, hi, r) == low + MulDiv(hi - low, r, RngMod)

choose_value_raw(name, low, hi, r) == <<name, Uniform(low, hi, r)>>

\* choose_value for the draw r
choose_value(name, low, hi, r) ==
  LET v == Uniform(low, hi, r)
  IN  IF name = "midi" THEN <<"frequency", note_to_freq(v)>> ELSE <<name, v>>

\* ------------------------------------------------------------ helpers ---
\* list.sort() on numbers
RECURSIVE list_sort(_)
list_sort(s) ==
  IF s = << >> THEN << >>
  ELSE LET x    == s[Len(s)]
           rest == list_sort(SubSeq(s, 1, Len(s) - 1))
       IN  SelectSeq(rest, LAMBDA y : y <= x) \o <<x>>
             \o SelectSeq(rest, LAMBDA y : y > x)

\* d[k] = v on a dict
Put(d, k, v) == [x \in (DOMAIN d) \cup {k} |-> IF x = k THEN v ELSE d[x]]

OverlayOnly(params, variable, v) == [x \in {variable} |-> v]

\* newparams = copy.copy(params); newparams[variable] = v
Overlay(params, variable, v) == Put(params, variable, v)

\* ---------------------------------------------------------- formatting ---
\* the value rounded to 3 decimals, in thousandths, sign dropped
Milli(v) ==
  LET a == Abs(v)
  IN  (a \div Scale) * 1000 + (2000 * (a % Scale) + Scale) \div (2 * Scale)

\* decimal digits of n >= 0 as ASCII codes, at least w of them
RECURSIVE Digits(_, _)
Digits(n, w) ==
  IF n < 10 /\ w <= 1 THEN <<48 + n>>
  ELSE Digits(n \div 10, w - 1) \o <<48 + (n % 10)>>

\* "{:010.3F}".format(v): 3 decimals, zero-padded after the sign to width 10
Format(v) ==
  LET m == Milli(v)
  IN  IF v < 0
      THEN <<45>> \o Digits(m \div 1000, 5) \o <<46>> \o Digits(m % 1000, 3)
      ELSE Digits(m \div 1000, 6) \o <<46>> \o Digits(m % 1000, 3)

\* str < str
RECURSIVE LexLess(_, _)
LexLess(s, t) ==
  IF t = << >> THEN FALSE
  ELSE IF s = << >> THEN TRUE
  ELSE IF Head(s) # Head(t) THEN Head(s) < Head(t)
  ELSE LexLess(Tail(s), Tail(t))

\* os.path.join("data/transforms", f"{transform}-{basename}-{variable}-{v}.ogg")
\* as the tuple of the pieces the name is made of
OutPath(transform, file, variable, v) == <<transform, file, variable, Format(v)>>

\* -------------------------------------------------------- collaborators ---
\* sox: the decoded content of the file rendered from f with value v; its
\* length is fixed by the run's engine behaviour, sample j is tagged <<v, j>>
EngineOut(engine, v) ==
  [j \in 1 .. (1 + ((Milli(v) + engine) % MaxLen)) |-> <<v, j>>]

\* auraloss distance, uninterpreted
dist(input, target) == [input |-> input, target |-> target]

\* scipy.stats.spearmanr(a, b)[0], uninterpreted
spearmanr(a, b) == [a |-> a, b |-> b]

\* range(n)
range(n) == [k \in 1 .. n |-> k - 1]

TruncateTargetOnly(input, target) ==
  IF Len(input) < Len(target)
  THEN <<input, SubSeq(target, 1, Len(input))>>
  ELSE <<input, target>>

\* lines 181-184: <<input, target>> cut to the shorter of the two
Truncate(input, target) ==
  IF Len(input) < Len(target)
  THEN <<input, SubSeq(target, 1, Len(input))>>
  ELSE <<SubSeq(input, 1, Len(target)), target>>

\* -------------------------------------------------------------- state ---
VARIABLES
  rng,              \* state of the process-wide generator
  engine,           \* behaviour of the effects engine in this run
  disk,             \* data/transforms: path -> decoded content
  printed,          \* lines written by print, in order
  f,                \* position of the driver loop in the file list
  pc,               \* position of the program
  i,                \* position of the loop pc names
  error,            \* the exception that ended the process, "" if none
  transform_spec,   \* locals of transform_file
  variable_spec,
  variable,
  params,
  variable_values,
  outfiles,
  dists,
  draws,            \* history: generator draws of this call, in order,
                    \* each <<kind, parameter, value of random()>>
  ndraws,           \* history: generator draws of the process
  chosen,           \* history: transform of every call so far
  calls             \* history: engine calls of this call, in order

vars ==
  <<rng, engine, disk, printed, f, pc, i, error, transform_spec,
    variable_spec, variable, params, variable_values, outfiles, dists,
    draws, ndraws, chosen, calls>>

locals ==
  <<transform_spec, variable_spec, variable, params, variable_values,
    outfiles, dists>>

transform   == transform_spec[1]
continuous  == transform_spec[2]
categorical == transform_spec[3]

NoSpec == <<"", << >>, << >> >>

Init ==
  /\ rng \in Seeds
  /\ engine \in 0 .. (MaxLen - 1)
  /\ disk = << >>
  /\ printed = << >>
  /\ f = 0
  /\ pc = "loop"
  /\ i = 0
  /\ error = ""
  /\ transform_spec = NoSpec
  /\ variable_spec = << >>
  /\ variable = ""
  /\ params = << >>
  /\ variable_values = << >>
  /\ outfiles = << >>
  /\ dists = << >>
  /\ draws = << >>
  /\ ndraws = 0
  /\ chosen = << >>
  /\ calls = << >>

\* one call of the generator, recorded
Draw(kind, name) ==
  /\ rng' = RngStep(rng)
  /\ draws' = Append(draws, <<kind, name, rng'>>)
  /\ ndraws' = ndraws + 1

NoDraw == UNCHANGED <<rng, draws, ndraws>>

UncaughtContinue(exc) ==
  /\ pc' = "loop"
  /\ error' = exc

\* an exception leaves transform_file; the loop of lines 190-191 has no
\* handler, the process ends
Uncaught(exc) ==
  /\ pc' = "crashed"
  /\ error' = exc

\* where the code goes once the loop over transform_spec[1] is over
AfterContinuous == IF categorical = << >> THEN "sweep" ELSE "categorical"

\* lines 190, 138-141: the loop takes the next file, transform_file picks
\* the transform
StartFile ==
  /\ pc = "loop"
  /\ f < NumFiles
  /\ f' = f + 1
  /\ rng' = RngStep(rng)
  /\ draws' = << <<"transform", "", rng'>> >>
  /\ ndraws' = ndraws + 1
  /\ transform_spec' = Choice(transforms, rng')
  /\ chosen' = Append(chosen, transform_spec'[1])
  /\ params' = << >>
  /\ variable_spec' = << >>
  /\ variable' = ""
  /\ variable_values' = << >>
  /\ outfiles' = << >>
  /\ dists' = << >>
  /\ calls' = << >>
  /\ i' = 0
  /\ pc' = "variable"
  /\ UNCHANGED <<engine, disk, printed, error>>

\* line 190: the file list is exhausted
Finish ==
  /\ pc = "loop"
  /\ f = NumFiles
  /\ pc' = "done"
  /\ UNCHANGED <<rng, engine, disk, printed, f, i, error, locals, draws,
                 ndraws, chosen, calls>>

\* lines 142-143
ChooseVariable ==
  /\ pc = "variable"
  /\ Draw("variable", "")
  /\ variable_spec' = Choice(continuous, rng')
  /\ variable' = variable_spec'[1]
  /\ i' = 1
  /\ pc' = "continuous"
  /\ UNCHANGED <<engine, disk, printed, f, error, transform_spec, params,
                 variable_values, outfiles, dists, chosen, calls>>

\* lines 144-148, one iteration; unpacking an entry that is no triple
\* raises ValueError
SampleContinuous ==
  /\ pc = "continuous"
  /\ LET e == continuous[i]
     IN  IF Len(e) # 3
         THEN /\ Uncaught("ValueError")
              /\ NoDraw
              /\ UNCHANGED <<i, params>>
         ELSE /\ IF e[1] = variable
                 THEN NoDraw /\ UNCHANGED params
                 ELSE /\ Draw("continuous", e[1])
                      /\ LET cv == choose_value(e[1], e[2], e[3], rng')
                         IN  params' = Put(params, cv[1], cv[2])
              /\ IF i < Len(continuous)
                 THEN i' = i + 1 /\ pc' = "continuous"
                 ELSE i' = 1 /\ pc' = AfterContinuous
              /\ UNCHANGED error
  /\ UNCHANGED <<engine, disk, printed, f, transform_spec, variable_spec,
                 variable, variable_values, outfiles, dists, chosen, calls>>

\* lines 149-150, one iteration
SampleCategorical ==
  /\ pc = "categorical"
  /\ LET e == categorical[i]
     IN  /\ Draw("categorical", e[1])
         /\ params' = Put(params, e[1], Choice(e[2], rng'))
  /\ IF i < Len(categorical)
     THEN i' = i + 1 /\ pc' = "categorical"
     ELSE i' = 1 /\ pc' = "sweep"
  /\ UNCHANGED <<engine, disk, printed, f, error, transform_spec,
                 variable_spec, variable, variable_values, outfiles, dists,
                 chosen, calls>>

\* the values of the comprehension of lines 152-155 for the draws rs
SweepValues(name, low, hi, rs) ==
  [k \in 1 .. Len(rs) |-> choose_value(name, low, hi, rs[k])[2]]

\* lines 152-161: N_TRANSFORMS draws, the sort, the relabelling of midi
SampleSweep ==
  /\ pc = "sweep"
  /\ LET rs == RngDraws(rng, N_TRANSFORMS)
     IN  /\ rng' = rs[Len(rs)]
         /\ draws' = draws \o [k \in 1 .. Len(rs) |-> <<"sweep", variable, rs[k]>>]
         /\ ndraws' = ndraws + Len(rs)
         /\ variable_values' =
              list_sort(SweepValues(variable, variable_spec[2],
                                    variable_spec[3], rs))
  /\ variable' = IF variable = "midi" THEN "frequency" ELSE variable
  /\ outfiles' = << >>
  /\ i' = 1
  /\ pc' = "render"
  /\ UNCHANGED <<engine, disk, printed, f, error, transform_spec,
                 variable_spec, params, dists, chosen, calls>>

\* lines 162-175, one iteration; the engine renders or raises
Render ==
  /\ pc = "render"
  /\ LET v         == variable_values[i]
         outf      == OutPath(transform, f, variable, v)
         newparams == Overlay(params, variable, v)
     IN  /\ outfiles' = Append(outfiles, outf)
         /\ calls' = Append(calls, [transform |-> transform,
                                    params |-> newparams,
                                    input |-> f, output |-> outf])
         /\ \E ok \in BOOLEAN :
              IF ok
              THEN /\ disk' = Put(disk, outf, EngineOut(engine, v))
                   /\ IF i < Len(variable_values)
                      THEN i' = i + 1 /\ pc' = "render"
                      ELSE i' = 2 /\ pc' = "measure"
                   /\ UNCHANGED error
              ELSE /\ Uncaught("SoxError")
                   /\ UNCHANGED <<disk, i>>
  /\ NoDraw
  /\ UNCHANGED <<engine, printed, f, transform_spec, variable_spec,
                 variable, params, variable_values, dists, chosen>>

\* lines 178-185, one iteration
Measure ==
  /\ pc = "measure"
  /\ LET outf2 == outfiles[i]
         t     == Truncate(disk[outf2], disk[outfiles[1]])
     IN  dists' = Append(dists, dist(t[1], t[2]))
  /\ IF i < Len(outfiles)
     THEN i' = i + 1 /\ pc' = "measure"
     ELSE i' = 0 /\ pc' = "print"
  /\ NoDraw
  /\ UNCHANGED <<engine, disk, printed, f, error, transform_spec,
                 variable_spec, variable, params, variable_values, outfiles,
                 chosen, calls>>

\* line 187, and the return to the loop of line 190
Report ==
  /\ pc = "print"
  /\ printed' = Append(printed, [file |-> f,
                                 coef |-> spearmanr(dists, range(Len(dists)))])
  /\ pc' = "loop"
  /\ NoDraw
  /\ UNCHANGED <<engine, disk, f, i, error, locals, chosen, calls>>

Next ==
  \/ StartFile
  \/ ChooseVariable
  \/ SampleContinuous
  \/ SampleCategorical
  \/ SampleSweep
  \/ Render
  \/ Measure
  \/ Report
  \/ Finish

Spec == Init /\ [][Next]_vars

\* ======================================================== properties ===
Min(a, b) == IF a < b THEN a ELSE b

IsPrefix(s, t) == Len(s) <= Len(t) /\ s = SubSeq(t, 1, Len(s))

\* the chosen entry of continuous is a (name, low, high) triple
IsTriple(e) == Len(e) = 3

\* transform_file is past lines 139-156 (returned, raised, or rendering)
Sampled == f > 0 /\ pc \notin {"variable", "continuous", "categorical", "sweep"}

\* transform_file is inside lines 159-187 or has returned
Rendering == f > 0 /\ pc \in {"render", "measure", "print", "loop", "done"}

\* the bound of the swept axis as the sweep sees it
AxisBound(x) == IF variable_spec[1] = "midi" THEN note_to_freq(x) ELSE x

\* what a parameter named name turns into on its way to the engine
LabelOf(name) == IF name = "midi" THEN "frequency" ELSE name
ValueOf(name, v) == IF name = "midi" THEN note_to_freq(v) ELSE v

\* the values random.uniform returned for parameter name in this call
RawOf(kind, name) ==
  LET ds == SelectSeq(draws, LAMBDA d : d[1] = kind /\ d[2] = name)
  IN  [k \in 1 .. Len(ds) |->
         LET e == CHOOSE e \in {continuous[j] : j \in 1 .. Len(continuous)} :
                    e[1] = name
         IN  Uniform(e[2], e[3], ds[k][3])]

\* ---- C1 ----------------------------------------------------------------
\* C1: once the sampling step of transform_file is over, whatever the
\* catalog entry chosen, the variable axis is a (name, low, high) entry of
\* the entry's continuous list and the sweep has exactly N_TRANSFORMS
\* values, ascending, all within [low, high] of that axis (within
\* [freq(low), freq(high)] for midi).
C1_SweepWellFormed ==
  Sampled =>
    /\ IsTriple(variable_spec)
    /\ \E k \in 1 .. Len(continuous) : continuous[k] = variable_spec
    /\ Len(variable_values) = N_TRANSFORMS
    /\ \A k \in 1 .. (Len(variable_values) - 1) :
         variable_values[k] <= variable_values[k + 1]
    /\ \A k \in 1 .. Len(variable_values) :
         /\ AxisBound(variable_spec[2]) <= variable_values[k]
         /\ variable_values[k] <= AxisBound(variable_spec[3])

\* ---- C2 ----------------------------------------------------------------
\* the names the template holds: every continuous parameter but the swept
\* one, under its engine label, and every categorical parameter
TemplateNames ==
  {LabelOf(continuous[k][1]) : k \in {j \in 1 .. Len(continuous) :
                                        continuous[j] # variable_spec}}
    \cup {categorical[k][1] : k \in 1 .. Len(categorical)}

C2_Assignments ==
  (calls # << >>) =>
    /\ variable \notin DOMAIN params
    /\ DOMAIN params = TemplateNames
    /\ \A k \in 1 .. Len(calls) :
         /\ DOMAIN calls[k].params = TemplateNames \cup {variable}
         /\ calls[k].params[variable] = variable_values[k]
         /\ \A x \in TemplateNames : calls[k].params[x] = params[x]

\* C2: within one call of transform_file the assignments handed to the
\* engine hold the swept value under the variable's key and, under every
\* other key, every other continuous and every categorical parameter with
\* the value of the template sampled once for the file; no step after the
\* sampling changes the template.
C2_OnlyVariableVaries ==
  /\ []C2_Assignments
  /\ [][(pc \in {"render", "measure", "print"}) => (params' = params)]_vars

\* a whole flanger sweep has been handed to the engine, with 5 fixed
\* continuous and 2 categorical parameters and a sweep that moves
C2_Witness ==
  /\ pc = "measure"
  /\ transform = "flanger"
  /\ Len(calls) = N_TRANSFORMS
  /\ Cardinality(DOMAIN params) = 7
  /\ variable_values[1] # variable_values[N_TRANSFORMS]

\* ---- C3 ----------------------------------------------------------------
\* C3: validation takes N-1 distances in sweep order, distance k between
\* the artifact rendered from sweep value k (0-based) and the artifact
\* rendered from sweep value 0, and correlates them with 0..N-2.
C3_DistancesInSweepOrder ==
  /\ \A k \in 1 .. Len(dists) :
       /\ dists[k].input[1] = <<variable_values[k + 1], 1>>
       /\ dists[k].target[1] = <<variable_values[1], 1>>
  /\ (pc = "print" => Len(dists) = N_TRANSFORMS - 1)
  /\ \A k \in 1 .. Len(printed) :
       /\ Len(printed[k].coef.a) = N_TRANSFORMS - 1
       /\ printed[k].coef.b = [j \in 1 .. (N_TRANSFORMS - 1) |-> j - 1]

\* ---- C4 ----------------------------------------------------------------
\* C4: as long as no collaborator fails the driver does not stop before the
\* end of the corpus, and at the end one coefficient has been printed per
\* file, in file order.
C4_OneCoefficientPerFile ==
  (error # "SoxError") =>
    /\ pc # "crashed"
    /\ (pc = "done" =>
          [k \in 1 .. Len(printed) |-> printed[k].file] =
          [k \in 1 .. NumFiles |-> k])

\* ---- C5 ----------------------------------------------------------------
\* C5 as claimed: after an engine failure the driver is still running (it
\* goes on with the next file).
C5_DriverContinues == (error = "SoxError") => (pc # "crashed")

C5_Aborted ==
  (error = "SoxError") =>
    /\ pc = "crashed"
    /\ \A k \in 1 .. Len(printed) : printed[k].file # f
    /\ Len(printed) = f - 1
    /\ Len(calls) = Len(outfiles)
    /\ Len(calls) = i

\* C5 amended: an engine failure while rendering a sweep value aborts the
\* file (no coefficient printed for it, no further sweep value rendered)
\* and ends the driver: no step follows, no later file is processed.
C5_FailureEndsDriver ==
  /\ []C5_Aborted
  /\ [][pc # "crashed"]_vars

\* the engine has failed in the middle of the sweep of a file that is not
\* the last of the corpus
C5_Witness ==
  /\ error = "SoxError"
  /\ f < NumFiles
  /\ Len(calls) > 1
  /\ Len(calls) < N_TRANSFORMS

\* ---- C6 ----------------------------------------------------------------
\* C6: for every pair (anchor, artifact k) the two buffers given to the
\* distance are the leading min(La, Lk) samples of the decoded anchor and
\* of the decoded artifact k, La being the length of the whole decoded
\* anchor for every k.
C6_TruncatedToShorter ==
  \A k \in 1 .. Len(dists) :
    LET anchor   == disk[outfiles[1]]
        artifact == disk[outfiles[k + 1]]
        m        == Min(Len(anchor), Len(artifact))
    IN  /\ dists[k].input = SubSeq(artifact, 1, m)
        /\ dists[k].target = SubSeq(anchor, 1, m)

\* a pair with a shorter artifact is followed by a pair with a longer one
C6_Witness ==
  /\ pc = "print"
  /\ \E k \in 1 .. Len(dists) : \E j \in (k + 1) .. Len(dists) :
       /\ Len(disk[outfiles[k + 1]]) < Len(disk[outfiles[1]])
       /\ Len(disk[outfiles[j + 1]]) > Len(disk[outfiles[1]])

\* ---- C7 ----------------------------------------------------------------
\* C7: two different sweep values of the same sweep are never given the
\* same output path.
C7_PathsDistinct ==
  \A a \in 1 .. Len(outfiles) : \A b \in 1 .. Len(outfiles) :
    (variable_values[a] # variable_values[b]) => (outfiles[a] # outfiles[b])

\* ---- C8 ----------------------------------------------------------------
\* C8: no assignment and no file name carries the name midi; a midi
\* parameter is found under frequency with the frequency of its sampled
\* note, any other continuous parameter under its own name with its
\* sampled value as drawn; the k-th assignment holds the k-th smallest
\* sampled value of the swept axis.
C8_MidiOnlyAsFrequency ==
  LET swept == list_sort(RawOf("sweep", variable_spec[1]))
      fixed == [j \in 1 .. Len(continuous) |->
                  IF continuous[j] = variable_spec THEN 0
                  ELSE RawOf("continuous", continuous[j][1])[1]]
  IN  \A k \in 1 .. Len(calls) :
        /\ "midi" \notin DOMAIN calls[k].params
        /\ calls[k].output[3] = LabelOf(variable_spec[1])
        /\ \A j \in 1 .. Len(continuous) :
             LET name == continuous[j][1]
             IN  /\ LabelOf(name) \in DOMAIN calls[k].params
                 /\ calls[k].params[LabelOf(name)] =
                      IF continuous[j] = variable_spec
                      THEN ValueOf(name, swept[k])
                      ELSE ValueOf(name, fixed[j])

\* a midi axis has been swept and handed to the engine 32 times
C8_Witness ==
  /\ pc = "measure"
  /\ variable_spec[1] = "midi"
  /\ Len(calls) = N_TRANSFORMS
  /\ calls[1].params["frequency"] < calls[N_TRANSFORMS].params["frequency"]

\* ---- C9 ----------------------------------------------------------------
DrawKinds == [k \in 1 .. Len(draws) |-> <<draws[k][1], draws[k][2]>>]

OtherContinuous == SelectSeq(continuous, LAMBDA e : e # variable_spec)

\* the draws the claim lists, in its order
ClaimedDraws ==
  << <<"variable", "">> >>
    \o [k \in 1 .. Len(OtherContinuous) |-> <<"continuous", OtherContinuous[k][1]>>]
    \o [k \in 1 .. Len(categorical) |-> <<"categorical", categorical[k][1]>>]
    \o [k \in 1 .. N_TRANSFORMS |-> <<"sweep", variable_spec[1]>>]

ActualDraws == << <<"transform", "">> >> \o ClaimedDraws

\* draws of a whole call with the transform named t
DrawCount(t) ==
  LET spec == transforms[CHOOSE k \in 1 .. Len(transforms) : transforms[k][1] = t]
  IN  2 + (Len(spec[2]) - 1) + Len(spec[3]) + N_TRANSFORMS

RECURSIVE SumDrawCount(_)
SumDrawCount(ts) ==
  IF ts = << >> THEN 0 ELSE DrawCount(Head(ts)) + SumDrawCount(Tail(ts))

C10_LexicalOrderIsNumeric ==
  \A a \in 1 .. Len(outfiles) : \A b \in 1 .. Len(outfiles) :
    /\ Len(outfiles[a][4]) = 10
    /\ (variable_values[a] < variable_values[b]) =>
         ~ LexLess(outfiles[b][4], outfiles[a][4])

=============================================================================
